---- MODULE Spec2Model ----
(***************************************************************************)
(* State-machine model of src/main.py: the Telegram -> Mega.nz relay bot.  *)
(*                                                                         *)
(* Strings are modelled as sequences of chunks (the empty string is <<>>), *)
(* Python's None as the value None.  Every `await` of the source is a      *)
(* suspension point: an action runs one coroutine from one suspension      *)
(* point to the next.  Calls to collaborators outside the repository       *)
(* (Telegram sends, Telegram fetches, the file system, the executor) may   *)
(* succeed or raise; both outcomes are drawn nondeterministically.         *)
(*                                                                         *)
(* Line 95 of the source (`await ... if ... else time.sleep(...)` inside a *)
(* plain `def`) is modelled by the branch the expression selects, the      *)
(* blocking time.sleep: asyncio.iscoroutinefunction(self.upload_file) is   *)
(* false for a plain method.                                               *)
(***************************************************************************)
EXTENDS Integers, Sequences, FiniteSets, TLC

\* ---------------------------------------------------------------- bounds
\* transfers that can be in flight at once (slots of update handling)
MaxTransfers == 2
\* candidate random stems tempfile can draw for one suffix
MaxRand == 2
\* the clock int(time.time()) ranges over 0..MaxTime
MaxTime == 1
\* staging files that a failed os.unlink may leave behind
MaxLeftover == 1

\* ------------------------------------------------------------- constants
\* Python's Optional: None is the empty tuple, a value x is <<x>>
None == <<>>

Some(x) == <<x>>

Val(o) == o[1]

MAX_FILE_SIZE == 2000 * 1024 * 1024

TELEGRAM_API_LIMIT == 20 * 1024 * 1024

\* os.environ.get('MEGA_FOLDER_NAME', 'TelegramUploads'): the default
MEGA_FOLDER_NAME == <<"TelegramUploads">>

Transfers == 1..MaxTransfers

\* Python truthiness of an optional string: neither None nor ""
TruthyStr(o) == o /= None /\ Val(o) /= <<>>

\* Python truthiness of an optional number: neither None nor 0
TruthyInt(o) == o /= None /\ Val(o) /= 0

\* x or y, for strings
Or2(x, y) == IF x /= <<>> THEN x ELSE y

\* '@' in email
HasAt(email) == \E i \in DOMAIN email : email[i] = "@"

\* ------------------------------------------------------------ input sets
\* one configuration read from os.environ at import
Env(token, email, password, api_id, api_hash, pyrogram) ==
    [BOT_TOKEN |-> token, MEGA_EMAIL |-> email, MEGA_PASSWORD |-> password,
     API_ID |-> api_id, API_HASH |-> api_hash, PYROGRAM_AVAILABLE |-> pyrogram]

\* the configurations the model starts from: complete; without Pyrogram;
\* a Mega e-mail without '@' and a non-numeric API_ID; no API_HASH and no
\* password; no API_ID and no bot token; no e-mail
Envs ==
    {Env(<<"t">>, <<"u", "@", "x">>, <<"p">>, <<"1">>, <<"h">>, TRUE),
     Env(<<"t">>, <<"u", "@", "x">>, <<"p">>, <<"1">>, <<"h">>, FALSE),
     Env(<<"t">>, <<"u">>, <<"p">>, <<"x">>, <<"h">>, TRUE),
     Env(<<"t">>, <<"u", "@", "x">>, <<>>, <<"1">>, <<>>, TRUE),
     Env(<<>>, <<"u", "@", "x">>, <<"p">>, <<>>, <<"h">>, TRUE),
     Env(<<"t">>, <<>>, <<"p">>, <<"1">>, <<"h">>, TRUE)}

\* file_name attribute of a document / video / audio
FileNames == {None, Some(<<>>), Some(<<"report.pdf">>)}
\* file_id of a Telegram file object
FileIds == {"AgAD"}
\* file_size attribute (declared by Telegram; may be None)
DeclaredSizes ==
    {None} \cup
    {Some(n) : n \in {0, 1280, TELEGRAM_API_LIMIT, TELEGRAM_API_LIMIT + 1,
                      MAX_FILE_SIZE, MAX_FILE_SIZE + 1}}
\* bytes a fetch actually writes to the staging path
ActualSizes == {1280}
\* random.randint(1, 10) of login, in GiB
UsedQuotas == {4}

VARIABLES
    env,            \* module-level configuration read from os.environ
    boot,           \* position of __main__ / EnhancedTelegramMegaBot.__init__
    gateway,        \* MegaNzManager state: Uninitialized/Authenticating/Ready/Unavailable
    mgr_auth,       \* MegaNzManager.is_authenticated
    client_auth,    \* AlternativeMegaClient.is_authenticated
    account_info,   \* AlternativeMegaClient.account_info
    login_calls,    \* number of calls of AlternativeMegaClient.login so far
    lfh_init,       \* LargeFileHandler.is_initialized
    lfh_connected,  \* LargeFileHandler.client.is_connected
    now,            \* int(time.time())
    fs,             \* the staging directory: files [path, size] on disk
    tr,             \* per slot: the coroutine handling one file event
    probe           \* last result of MegaNzManager.get_account_info

vars ==
    <<env, boot, gateway, mgr_auth, client_auth, account_info, login_calls,
      lfh_init, lfh_connected, now, fs, tr, probe>>

gatewayVars == <<gateway, mgr_auth, client_auth, account_info, login_calls>>

\* ------------------------------------------------------- pure functions
KiB == 1024

\* f"{n / unit:.1f}" in tenths, for unit a power of 1024: the quotient is
\* exact in binary floating point, and the format rounds half to even
Tenths(n, unit) ==
    LET a == n \div unit
        b == n % unit
        c == b \div KiB
        d == b % KiB
        x == 10 * c + ((10 * d) \div KiB)
        y == (10 * d) % KiB
        v == unit \div KiB
        q == x \div v
        r2 == 2 * KiB * (x % v) + 2 * y
        up == IF r2 < unit THEN 0
              ELSE IF r2 > unit THEN 1
              ELSE q % 2
    IN  10 * a + q + up

\* EnhancedTelegramMegaBot.format_file_size; the number is in tenths for
\* the units KB, MB and GB
format_file_size(size_bytes) ==
    IF ~TruthyInt(size_bytes) THEN [n |-> 0, unit |-> "Unknown"]
    ELSE IF Val(size_bytes) < KiB THEN [n |-> Val(size_bytes), unit |-> "B"]
    ELSE IF Val(size_bytes) < KiB * KiB
        THEN [n |-> Tenths(Val(size_bytes), KiB), unit |-> "KB"]
    ELSE IF Val(size_bytes) < KiB * KiB * KiB
        THEN [n |-> Tenths(Val(size_bytes), KiB * KiB), unit |-> "MB"]
    ELSE [n |-> Tenths(Val(size_bytes), KiB * KiB * KiB), unit |-> "GB"]

\* the Bot API limit compared with < for <=
determine_download_method_exclusive(file_size, is_initialized) ==
    IF ~TruthyInt(file_size) THEN "bot_api"
    ELSE IF Val(file_size) < TELEGRAM_API_LIMIT THEN "bot_api"
    ELSE IF is_initialized THEN "client_api"
    ELSE "too_large"

\* EnhancedTelegramMegaBot.determine_download_method
determine_download_method(file_size, is_initialized) ==
    IF ~TruthyInt(file_size) THEN "bot_api"
    ELSE IF Val(file_size) <= TELEGRAM_API_LIMIT THEN "bot_api"
    ELSE IF is_initialized THEN "client_api"
    ELSE "too_large"

\* hashlib.md5(name.encode()).hexdigest()[:8]: a function of the name that
\* is not injective (names of equal length share a digest prefix here)
md5_8(name) == <<"md5", Len(name)>>

\* f"{timestamp}_{file_hash}_{original_filename}"
safe_filename(timestamp, original_filename) ==
    <<timestamp, md5_8(original_filename), original_filename>>

\* validate_environment
validate_environment(e) ==
    e.BOT_TOKEN /= <<>> /\ e.MEGA_EMAIL /= <<>> /\ e.MEGA_PASSWORD /= <<>>

\* AlternativeMegaClient.login: the return value and the fields it leaves
login(email, password, used, auth, info) ==
    IF email /= <<>> /\ password /= <<>> /\ HasAt(email)
    THEN [ret |-> TRUE, is_authenticated |-> TRUE,
          account_info |->
              Some([email |-> email, total_quota |-> 50, used_quota |-> used])]
    ELSE [ret |-> FALSE, is_authenticated |-> auth, account_info |-> info]

\* AlternativeMegaClient.get_quota
get_quota(auth, info) == IF ~auth THEN None ELSE info

\* get_account_info without its try/except and without its two guards:
\* quota_info.get on None raises
get_account_info_unguarded(m_auth, c_auth, info) ==
    LET quota_info == get_quota(c_auth, info)
    IN  IF quota_info = None
        THEN [raised |-> TRUE, value |-> None]
        ELSE [raised |-> FALSE,
              value |-> Some([total |-> Val(quota_info).total_quota,
                              used |-> Val(quota_info).used_quota,
                              available |-> Val(quota_info).total_quota
                                            - Val(quota_info).used_quota])]

\* MegaNzManager.get_account_info, quotas in GiB: whether an exception
\* leaves it, and the value it returns.  Its try/except Exception spans
\* the whole body.
get_account_info(m_auth, c_auth, info) ==
    [raised |-> FALSE,
     value |->
        IF ~m_auth THEN None
        ELSE LET quota_info == get_quota(c_auth, info)
             IN  IF quota_info /= None
                 THEN Some([total |-> Val(quota_info).total_quota,
                            used |-> Val(quota_info).used_quota,
                            available |-> Val(quota_info).total_quota
                                          - Val(quota_info).used_quota])
                 ELSE None]

\* ------------------------------------------------------------- messages
\* a text sent to the requester: which text of the source, with the size
\* string and the exception text it interpolates
Msg(kind, size, detail) == [kind |-> kind, size |-> size, detail |-> detail]

NoSize == [n |-> 0, unit |-> ""]

\* --------------------------------------------------------------- records
IdleTransfer ==
    [pc |-> "idle", category |-> "none", file_name |-> None, file_id |-> "",
     original_filename |-> <<>>, file_size |-> None, method |-> "none", temp_path |-> None,
     measured |-> None, mega_result |-> None, pending |-> None,
     sent |-> <<>>, outcome |-> "none", created |-> 0,
     fetch_started |-> FALSE, fetch_done |-> FALSE, fetch_failed |-> FALSE,
     upload_invoked |-> FALSE, upload_failed |-> FALSE, unlinks |-> 0,
     unlink_failed |-> FALSE, returned |-> FALSE, propagated |-> FALSE]

\* get_account_info was not called yet
NoProbe == [calls |-> 0, raised |-> FALSE, value |-> None]

Init ==
    /\ env \in Envs
    /\ boot = "main"
    /\ gateway = "Uninitialized"
    /\ mgr_auth = FALSE
    /\ client_auth = FALSE
    /\ account_info = None
    /\ login_calls = 0
    /\ lfh_init = FALSE
    /\ lfh_connected = FALSE
    /\ now = 0
    /\ fs = {}
    /\ tr = [t \in Transfers |-> IdleTransfer]
    /\ probe = NoProbe

\* ------------------------------------------------------------- start-up
\* __main__: validate_environment, then EnhancedTelegramMegaBot()
Main ==
    /\ boot = "main"
    /\ boot' = IF validate_environment(env) THEN "mega_new" ELSE "exited"
    /\ UNCHANGED <<env, gatewayVars, lfh_init, lfh_connected, now, fs, tr, probe>>

\* MegaNzManager.__init__ up to its call of setup_mega_service
MegaNzManager_init ==
    /\ boot = "mega_new"
    /\ gateway = "Uninitialized"
    /\ client_auth' = FALSE
    /\ account_info' = None
    /\ mgr_auth' = FALSE
    /\ gateway' = "Authenticating"
    /\ boot' = "mega_setup"
    /\ UNCHANGED <<env, login_calls, lfh_init, lfh_connected, now, fs, tr, probe>>

\* is_authenticated set whatever login returned
is_authenticated_after_always(success, before) == TRUE

\* setup_mega_service: `if success: self.is_authenticated = True`
is_authenticated_after(success, before) == IF success THEN TRUE ELSE before

\* MegaNzManager.setup_mega_service
setup_mega_service ==
    /\ boot = "mega_setup"
    /\ gateway = "Authenticating"
    /\ IF env.MEGA_EMAIL = <<>> \/ env.MEGA_PASSWORD = <<>>
       THEN /\ gateway' = "Unavailable"
            /\ UNCHANGED <<mgr_auth, client_auth, account_info, login_calls>>
       ELSE \E used \in UsedQuotas :
              LET r == login(env.MEGA_EMAIL, env.MEGA_PASSWORD, used,
                             client_auth, account_info)
              IN  /\ login_calls' = login_calls + 1
                  /\ client_auth' = r.is_authenticated
                  /\ account_info' = r.account_info
                  /\ mgr_auth' = is_authenticated_after(r.ret, mgr_auth)
                  /\ gateway' = IF r.ret THEN "Ready" ELSE "Unavailable"
    /\ boot' = "lfh_new"
    /\ UNCHANGED <<env, lfh_init, lfh_connected, now, fs, tr, probe>>

\* int(API_ID) succeeds
IsInt(api_id) == api_id = <<"1">>

\* LargeFileHandler.__init__, then setup_handlers and run_polling
LargeFileHandler_init ==
    /\ boot = "lfh_new"
    /\ lfh_init' = (/\ env.PYROGRAM_AVAILABLE
                    /\ env.API_ID /= <<>>
                    /\ env.API_HASH /= <<>>
                    /\ IsInt(env.API_ID))
    /\ lfh_connected' = FALSE
    /\ boot' = "polling"
    /\ UNCHANGED <<env, gatewayVars, now, fs, tr, probe>>

\* ------------------------------------------------------ staging directory
\* os.path.exists
exists(dir, path) == \E f \in dir : f.path = path

\* os.path.getsize of an existing file
getsize(dir, path) == (CHOOSE f \in dir : f.path = path).size

\* the directory after open(path, 'wb').write(bytes of length n)
written(dir, path, n) ==
    {f \in dir : f.path /= path} \cup {[path |-> path, size |-> n]}

\* the directory after os.unlink(path)
unlinked(dir, path) == {f \in dir : f.path /= path}

\* the name tempfile gives: a random stem, then the suffix
TempName(stem, suffix) == [stem |-> stem, suffix |-> suffix]

\* the stems free for a suffix
FreeStems(suffix) ==
    {stem \in 1..MaxRand : ~exists(fs, TempName(stem, suffix))}

\* a staging name fixed by the suffix alone, opened without O_EXCL
NamedTemporaryFile_not_exclusive(suffix) == {1}

\* the stem tempfile.NamedTemporaryFile ends on: it opens with O_EXCL and
\* draws again while the name exists.  Stems are interchangeable, so the
\* least free one stands for whichever is drawn; no free stem is left when
\* the draws are exhausted (FileExistsError)
NamedTemporaryFile(suffix) ==
    IF FreeStems(suffix) = {} THEN {}
    ELSE {CHOOSE stem \in FreeStems(suffix) :
             \A other \in FreeStems(suffix) : stem <= other}

\* pcs inside download_and_upload
InDownloadAndUpload(r) ==
    r.pc \in {"get_file", "download_to_drive", "client_start", "get_messages",
              "message_download", "uploading"}

\* pcs at which the slot handles no update
Free(r) == r.pc \in {"idle", "done"}

\* staging files no running download_and_upload owns
Leftover ==
    {f \in fs : ~\E t \in Transfers :
        InDownloadAndUpload(tr[t]) /\ tr[t].temp_path = Some(f.path)}

\* ------------------------------------------------------------ process_file
\* process_file skips the check of the gateway
mega_not_configured_skipped == FALSE

\* process_file: `if not self.mega_manager.is_authenticated`
mega_not_configured == ~mgr_auth

\* the size check with >= for >
exceeds_max_inclusive(file_size) ==
    TruthyInt(file_size) /\ Val(file_size) >= MAX_FILE_SIZE

\* process_file: `if file_size and file_size > MAX_FILE_SIZE`
exceeds_max(file_size) ==
    TruthyInt(file_size) /\ Val(file_size) > MAX_FILE_SIZE

\* process_file from its entry to its first await
process_file_entry(category, original_filename, file_size) ==
    LET r0 == [IdleTransfer EXCEPT !.category = category,
                                   !.original_filename = original_filename,
                                   !.file_size = file_size]
        method == determine_download_method(file_size, lfh_init)
    IN  IF mega_not_configured
        THEN [r0 EXCEPT !.pc = "reply_return",
                        !.outcome = "MegaNotConfigured",
                        !.pending = Some(Msg("MegaNotConfigured", NoSize, <<>>))]
        ELSE IF exceeds_max(file_size)
        THEN [r0 EXCEPT !.pc = "reply_return",
                        !.outcome = "FileTooLarge",
                        !.pending = Some(Msg("FileTooLarge",
                            [n |-> Val(file_size) \div (KiB * KiB), unit |-> "MB"],
                            <<>>))]
        ELSE IF method = "too_large"
        THEN [r0 EXCEPT !.pc = "reply_return",
                        !.method = method,
                        !.outcome = "TooLargeForBotApi",
                        !.pending = Some(Msg("TooLargeForBotApi",
                            format_file_size(file_size), <<>>))]
        ELSE [r0 EXCEPT !.pc = "reply_processing",
                        !.method = method,
                        !.pending = Some(Msg("Processing",
                            IF TruthyInt(file_size)
                            THEN format_file_size(file_size)
                            ELSE [n |-> 0, unit |-> "Unknown"],
                            original_filename))]

\* process_file after download_and_upload returned mega_result, to the
\* await of processing_msg.edit_text
process_file_result(r, mega_result) ==
    IF mega_result = None
    THEN [r EXCEPT !.pc = "edit_return",
                   !.returned = TRUE,
                   !.mega_result = None,
                   !.outcome = "UploadFailed",
                   !.pending = Some(Msg("UploadFailed", NoSize, <<>>))]
    ELSE [r EXCEPT !.pc = "edit_return",
                   !.returned = TRUE,
                   !.mega_result = mega_result,
                   !.outcome = "UploadSuccessful",
                   !.pending = Some(Msg("UploadSuccessful",
                       IF TruthyInt(r.file_size)
                       THEN format_file_size(r.file_size)
                       ELSE [n |-> 0, unit |-> "Unknown size"],
                       r.original_filename))]

\* the clean-up placed after the upload, inside the try block
cleanup_due_after_upload(r, mega_result, dir) ==
    r.temp_path /= None /\ exists(dir, Val(r.temp_path)) /\ mega_result /= None

\* the finally block of download_and_upload, whatever mega_result is:
\* `if temp_file and os.path.exists(temp_file.name)`
cleanup_due(r, mega_result, dir) ==
    r.temp_path /= None /\ exists(dir, Val(r.temp_path))

\* os.unlink outside a try block of its own: its exception replaces the
\* value download_and_upload was returning
download_and_upload_return_unlink_unguarded(t, r, mega_result, unlink_ok, dir) ==
    IF cleanup_due(r, mega_result, dir)
    THEN /\ unlink_ok \/ Cardinality(Leftover) < MaxLeftover
         /\ fs' = IF unlink_ok THEN unlinked(dir, Val(r.temp_path)) ELSE dir
         /\ tr' = [tr EXCEPT ![t] = process_file_result(
                       [r EXCEPT !.unlinks = r.unlinks + 1,
                                 !.unlink_failed = ~unlink_ok],
                       IF unlink_ok THEN mega_result ELSE None)]
    ELSE /\ unlink_ok
         /\ fs' = dir
         /\ tr' = [tr EXCEPT ![t] = process_file_result(r, mega_result)]

\* the finally block of download_and_upload in the directory dir, then the
\* return to process_file: os.unlink succeeds (unlink_ok) or raises and is
\* logged as a warning
download_and_upload_return(t, r, mega_result, unlink_ok, dir) ==
    IF cleanup_due(r, mega_result, dir)
    THEN /\ unlink_ok \/ Cardinality(Leftover) < MaxLeftover
         /\ fs' = IF unlink_ok THEN unlinked(dir, Val(r.temp_path)) ELSE dir
         /\ tr' = [tr EXCEPT ![t] = process_file_result(
                       [r EXCEPT !.unlinks = r.unlinks + 1,
                                 !.unlink_failed = ~unlink_ok],
                       mega_result)]
    ELSE /\ unlink_ok
         /\ fs' = dir
         /\ tr' = [tr EXCEPT ![t] = process_file_result(r, mega_result)]

\* download_and_upload from the end of a successful fetch to the await of
\* upload_file_async: os.path.getsize, then run_in_executor
start_upload(r, dir) ==
    [r EXCEPT !.pc = "uploading",
              !.measured = Some(getsize(dir, Val(r.temp_path))),
              !.upload_invoked = TRUE]

\* AlternativeMegaClient.upload_file on the executor thread; fault: an
\* exception inside its try block, which returns None
upload_file(file_path, filename, fault) ==
    IF ~client_auth THEN None
    ELSE IF fault \/ ~exists(fs, file_path) THEN None
    ELSE Some([file_handle |-> "FILEID", filename |-> filename,
               file_size |-> getsize(fs, file_path),
               folder |-> Or2(MEGA_FOLDER_NAME, <<"Root">>)])

\* the exception a fetch step raised reaches the except block of
\* download_and_upload: it returns None
fetch_raised(t, r, unlink_ok) ==
    download_and_upload_return(t, [r EXCEPT !.fetch_failed = TRUE], None,
                               unlink_ok, fs)

\* download_large_file returned False and download_and_upload goes on to
\* the upload
client_api_failed_no_return(t, r, unlink_ok) ==
    /\ unlink_ok
    /\ fs' = fs
    /\ tr' = [tr EXCEPT ![t] = start_upload([r EXCEPT !.fetch_failed = TRUE], fs)]

\* download_large_file returned False: download_and_upload returns None
client_api_failed(t, r, unlink_ok) ==
    download_and_upload_return(t, [r EXCEPT !.fetch_failed = TRUE], None,
                               unlink_ok, fs)

\* the requester receives the pending text
delivered(r) == [r EXCEPT !.sent = Append(r.sent, Val(r.pending)),
                          !.pending = None]

\* await processing_msg returned; download_and_upload runs to its first
\* await: the staging file is created, then the fetch is started
processing_msg_sent(t) ==
    /\ tr[t].pc = "reply_processing"
    /\ LET r1 == delivered(tr[t])
           suffix == safe_filename(now, r1.original_filename)
       IN  \/ \* NamedTemporaryFile raises: temp_file stays None
              /\ download_and_upload_return(t, r1, None, TRUE, fs)
           \/ \E stem \in NamedTemporaryFile(suffix), unlink_ok \in BOOLEAN :
                LET path == TempName(stem, suffix)
                    dir == fs \cup {[path |-> path, size |-> 0]}
                    r2 == [r1 EXCEPT !.temp_path = Some(path),
                                     !.created = r1.created + 1]
                IN  IF r2.method = "bot_api"
                    THEN /\ unlink_ok
                         /\ fs' = dir
                         /\ tr' = [tr EXCEPT ![t] =
                                [r2 EXCEPT !.pc = "get_file",
                                           !.fetch_started = TRUE]]
                    ELSE IF r2.method = "client_api"
                    THEN IF ~lfh_init
                         THEN download_and_upload_return(t,
                                  [r2 EXCEPT !.fetch_failed = TRUE], None,
                                  unlink_ok, dir)
                         ELSE /\ unlink_ok
                              /\ fs' = dir
                              /\ tr' = [tr EXCEPT ![t] =
                                     [r2 EXCEPT !.pc = IF lfh_connected
                                                       THEN "get_messages"
                                                       ELSE "client_start",
                                                !.fetch_started = TRUE]]
                    ELSE /\ unlink_ok
                         /\ fs' = dir
                         /\ tr' = [tr EXCEPT ![t] = start_upload(r2, dir)]
    /\ UNCHANGED <<env, boot, gatewayVars, lfh_init, lfh_connected, now, probe>>

\* await file_obj.get_file() returns or raises
get_file_done(t) ==
    /\ tr[t].pc = "get_file"
    /\ \/ /\ tr' = [tr EXCEPT ![t].pc = "download_to_drive"]
          /\ fs' = fs
       \/ \E unlink_ok \in BOOLEAN : fetch_raised(t, tr[t], unlink_ok)
    /\ UNCHANGED <<env, boot, gatewayVars, lfh_init, lfh_connected, now, probe>>

\* download_to_drive called without await: the upload starts on the
\* staging file before the bytes are written
download_to_drive_not_awaited(t) ==
    /\ tr[t].pc = "download_to_drive"
    /\ fs' = fs
    /\ tr' = [tr EXCEPT ![t] = start_upload(tr[t], fs)]
    /\ UNCHANGED <<env, boot, gatewayVars, lfh_init, lfh_connected, now, probe>>

\* await telegram_file.download_to_drive(temp_path) returns, having written
\* the bytes, or raises
download_to_drive_done(t) ==
    /\ tr[t].pc = "download_to_drive"
    /\ \/ \E n \in ActualSizes :
            LET dir == written(fs, Val(tr[t].temp_path), n)
            IN  /\ fs' = dir
                /\ tr' = [tr EXCEPT ![t] =
                       start_upload([tr[t] EXCEPT !.fetch_done = TRUE], dir)]
       \/ \E unlink_ok \in BOOLEAN : fetch_raised(t, tr[t], unlink_ok)
    /\ UNCHANGED <<env, boot, gatewayVars, lfh_init, lfh_connected, now, probe>>

\* download_large_file: await self.start_client() returns or raises
client_start_done(t) ==
    /\ tr[t].pc = "client_start"
    /\ \/ /\ lfh_connected' = TRUE
          /\ tr' = [tr EXCEPT ![t].pc = "get_messages"]
          /\ fs' = fs
       \/ /\ \E unlink_ok \in BOOLEAN : client_api_failed(t, tr[t], unlink_ok)
          /\ UNCHANGED lfh_connected
    /\ UNCHANGED <<env, boot, gatewayVars, lfh_init, now, probe>>

\* the message of a file event carries its file as document, video or
\* photo, or as another medium
HasDownloadableMedia(category) == category \in {"document", "video", "photo"}

\* download_large_file: await self.client.get_messages returns or raises,
\* then the check that the message holds a file
get_messages_done(t) ==
    /\ tr[t].pc = "get_messages"
    /\ \/ /\ HasDownloadableMedia(tr[t].category)
          /\ tr' = [tr EXCEPT ![t].pc = "message_download"]
          /\ fs' = fs
       \/ /\ ~HasDownloadableMedia(tr[t].category)
          /\ \E unlink_ok \in BOOLEAN : client_api_failed(t, tr[t], unlink_ok)
       \/ \E unlink_ok \in BOOLEAN : client_api_failed(t, tr[t], unlink_ok)
    /\ UNCHANGED <<env, boot, gatewayVars, lfh_init, lfh_connected, now, probe>>

\* download_large_file: await message.download(file_path) returns, having
\* written the bytes, or raises
message_download_done(t) ==
    /\ tr[t].pc = "message_download"
    /\ \/ \E n \in ActualSizes :
            LET dir == written(fs, Val(tr[t].temp_path), n)
            IN  /\ fs' = dir
                /\ tr' = [tr EXCEPT ![t] =
                       start_upload([tr[t] EXCEPT !.fetch_done = TRUE], dir)]
       \/ \E unlink_ok \in BOOLEAN : client_api_failed(t, tr[t], unlink_ok)
    /\ UNCHANGED <<env, boot, gatewayVars, lfh_init, lfh_connected, now, probe>>

\* await self.mega_manager.upload_file_async returns what upload_file
\* returned, or run_in_executor raises
upload_file_async_done(t) ==
    /\ tr[t].pc = "uploading"
    /\ \E fault \in BOOLEAN, raises \in BOOLEAN, unlink_ok \in BOOLEAN :
         LET mega_result ==
                 IF raises THEN None
                 ELSE upload_file(Val(tr[t].temp_path),
                                  tr[t].original_filename, fault)
         IN  download_and_upload_return(t,
                 [tr[t] EXCEPT !.upload_failed = (mega_result = None)],
                 mega_result, unlink_ok, fs)
    /\ UNCHANGED <<env, boot, gatewayVars, lfh_init, lfh_connected, now, probe>>

\* the reply_text of an early return of process_file is delivered
reply_text_done(t) ==
    /\ tr[t].pc = "reply_return"
    /\ tr' = [tr EXCEPT ![t] = [delivered(tr[t]) EXCEPT !.pc = "done"]]
    /\ UNCHANGED <<env, boot, gatewayVars, lfh_init, lfh_connected, now, fs, probe>>

\* processing_msg.edit_text of the final text is delivered
edit_text_done(t) ==
    /\ tr[t].pc = "edit_return"
    /\ tr' = [tr EXCEPT ![t] = [delivered(tr[t]) EXCEPT !.pc = "done"]]
    /\ UNCHANGED <<env, boot, gatewayVars, lfh_init, lfh_connected, now, fs, probe>>

\* str(e) of an exception of the Telegram client
TelegramErrorText == <<"telegram.error">>

\* a reply_text or edit_text of process_file raises: its except block
\* builds the text that quotes str(e)
telegram_send_raises(t) ==
    /\ tr[t].pc \in {"reply_return", "reply_processing", "edit_return"}
    /\ tr' = [tr EXCEPT ![t] =
           [tr[t] EXCEPT !.pc = "except_reply",
                         !.outcome = IF tr[t].outcome = "none"
                                     THEN "ProcessingError"
                                     ELSE tr[t].outcome,
                         !.pending = Some(Msg("ProcessingError", NoSize,
                                              TelegramErrorText))]]
    /\ UNCHANGED <<env, boot, gatewayVars, lfh_init, lfh_connected, now, fs, probe>>

\* the reply_text of the except block is delivered, or raises and the
\* exception leaves process_file
except_reply_done(t) ==
    /\ tr[t].pc = "except_reply"
    /\ \/ tr' = [tr EXCEPT ![t] = [delivered(tr[t]) EXCEPT !.pc = "done"]]
       \/ tr' = [tr EXCEPT ![t] = [tr[t] EXCEPT !.pc = "done",
                                                !.pending = None,
                                                !.propagated = TRUE]]
    /\ UNCHANGED <<env, boot, gatewayVars, lfh_init, lfh_connected, now, fs, probe>>

\* --------------------------------------------------------------- handlers
\* the slot that takes the next update: the lowest free one
NextSlot(t) ==
    /\ boot = "polling"
    /\ Free(tr[t])
    /\ \A u \in Transfers : u < t => ~Free(tr[u])

\* EnhancedTelegramMegaBot.handle_document
handle_document(t, file_name, file_id, file_size) ==
    /\ NextSlot(t)
    /\ tr' = [tr EXCEPT ![t] =
           [process_file_entry("document",
                IF TruthyStr(file_name) THEN Val(file_name)
                ELSE <<"document">>,
                file_size)
            EXCEPT !.file_name = file_name, !.file_id = file_id]]
    /\ UNCHANGED <<env, boot, gatewayVars, lfh_init, lfh_connected, now, fs, probe>>

\* EnhancedTelegramMegaBot.handle_photo
handle_photo(t, file_id, file_size) ==
    /\ NextSlot(t)
    /\ tr' = [tr EXCEPT ![t] =
           [process_file_entry("photo", <<"photo_", file_id, ".jpg">>,
                               file_size)
            EXCEPT !.file_id = file_id]]
    /\ UNCHANGED <<env, boot, gatewayVars, lfh_init, lfh_connected, now, fs, probe>>

\* EnhancedTelegramMegaBot.handle_video
handle_video(t, file_name, file_id, file_size) ==
    /\ NextSlot(t)
    /\ tr' = [tr EXCEPT ![t] =
           [process_file_entry("video",
                IF TruthyStr(file_name) THEN Val(file_name)
                ELSE <<"video_", file_id, ".mp4">>,
                file_size)
            EXCEPT !.file_name = file_name, !.file_id = file_id]]
    /\ UNCHANGED <<env, boot, gatewayVars, lfh_init, lfh_connected, now, fs, probe>>

\* EnhancedTelegramMegaBot.handle_audio
handle_audio(t, file_name, file_id, file_size) ==
    /\ NextSlot(t)
    /\ tr' = [tr EXCEPT ![t] =
           [process_file_entry("audio",
                IF TruthyStr(file_name) THEN Val(file_name)
                ELSE <<"audio_", file_id, ".mp3">>,
                file_size)
            EXCEPT !.file_name = file_name, !.file_id = file_id]]
    /\ UNCHANGED <<env, boot, gatewayVars, lfh_init, lfh_connected, now, fs, probe>>

\* EnhancedTelegramMegaBot.handle_voice
handle_voice(t, file_id, file_size) ==
    /\ NextSlot(t)
    /\ tr' = [tr EXCEPT ![t] =
           [process_file_entry("voice", <<"voice_", file_id, ".ogg">>,
                               file_size)
            EXCEPT !.file_id = file_id]]
    /\ UNCHANGED <<env, boot, gatewayVars, lfh_init, lfh_connected, now, fs, probe>>

\* EnhancedTelegramMegaBot.start_command: reads the two flags, replies
start_command ==
    /\ boot = "polling"
    /\ UNCHANGED vars

\* EnhancedTelegramMegaBot.status_command: reads the two flags, replies
status_command ==
    /\ boot = "polling"
    /\ UNCHANGED vars

\* EnhancedTelegramMegaBot.quota_command
quota_command ==
    /\ boot = "polling"
    /\ LET quota_info ==
               IF ~mgr_auth THEN None
               ELSE get_account_info(mgr_auth, client_auth, account_info).value
       IN  UNCHANGED vars

\* time.time() advances
Tick ==
    /\ boot = "polling"
    /\ now < MaxTime
    /\ now' = now + 1
    /\ UNCHANGED <<env, boot, gatewayVars, lfh_init, lfh_connected, fs, tr, probe>>

\* -------------------------------------------------------- specifications
\* the steps of the coroutine in slot t
Step(t) ==
    \/ processing_msg_sent(t)
    \/ get_file_done(t)
    \/ download_to_drive_done(t)
    \/ client_start_done(t)
    \/ get_messages_done(t)
    \/ message_download_done(t)
    \/ upload_file_async_done(t)
    \/ reply_text_done(t)
    \/ edit_text_done(t)
    \/ telegram_send_raises(t)
    \/ except_reply_done(t)

\* no update is being handled: Application.builder().build() leaves
\* concurrent_updates off, so the next update is taken only then
Quiet == \A u \in Transfers : Free(tr[u])

\* a file update arrives and its handler runs to its first await
Update(sizes) ==
    \E t \in Transfers, file_size \in sizes :
        \/ \E file_name \in FileNames, file_id \in FileIds :
              handle_document(t, file_name, file_id, file_size)
        \/ \E file_id \in FileIds : handle_photo(t, file_id, file_size)
        \/ \E file_name \in FileNames, file_id \in FileIds :
              handle_video(t, file_name, file_id, file_size)
        \/ \E file_name \in FileNames, file_id \in FileIds :
              handle_audio(t, file_name, file_id, file_size)
        \/ \E file_id \in FileIds : handle_voice(t, file_id, file_size)

Command ==
    \/ start_command
    \/ status_command
    \/ quota_command

Startup ==
    \/ Main
    \/ MegaNzManager_init
    \/ setup_mega_service
    \/ LargeFileHandler_init

Next ==
    \/ Startup
    \/ Quiet /\ Update(DeclaredSizes)
    \/ Quiet /\ Command
    \/ \E t \in Transfers : Step(t)
    \/ Tick

Spec == Init /\ [][Next]_vars

\* updates handled concurrently (concurrent_updates on): a superset of the
\* interleavings of Spec, from the complete configuration, for documents
\* without a file name and the sizes that select each fetch method or the
\* rejection
ConcurrentSizes ==
    {None, Some(TELEGRAM_API_LIMIT + 1), Some(MAX_FILE_SIZE + 1)}

InitConcurrent ==
    /\ Init
    /\ env = Env(<<"t">>, <<"u", "@", "x">>, <<"p">>, <<"1">>, <<"h">>, TRUE)

NextConcurrent ==
    \/ Startup
    \/ \E t \in Transfers, file_id \in FileIds, file_size \in ConcurrentSizes :
          handle_document(t, None, file_id, file_size)
    \/ \E t \in Transfers : Step(t)
    \/ Tick

SpecConcurrent == InitConcurrent /\ [][NextConcurrent]_vars

\* get_account_info applied in every combination of the gateway's fields
ProbeQuotas == 1..10

ProbeInfos ==
    {None} \cup
    {Some([email |-> e, total_quota |-> 50, used_quota |-> u]) :
        e \in {<<"u", "@", "x">>, <<"v", "@", "y">>}, u \in ProbeQuotas}

InitProbe ==
    /\ env = Env(<<"t">>, <<"u", "@", "x">>, <<"p">>, <<"1">>, <<"h">>, TRUE)
    /\ boot = "polling"
    /\ mgr_auth \in BOOLEAN
    /\ client_auth \in BOOLEAN
    /\ account_info \in ProbeInfos
    /\ gateway = IF mgr_auth THEN "Ready" ELSE "Unavailable"
    /\ login_calls = 0
    /\ lfh_init = FALSE
    /\ lfh_connected = FALSE
    /\ now = 0
    /\ fs = {}
    /\ tr = [t \in Transfers |-> IdleTransfer]
    /\ probe = NoProbe

\* a caller invokes MegaNzManager.get_account_info
get_account_info_call ==
    /\ probe.calls = 0
    /\ LET res == get_account_info(mgr_auth, client_auth, account_info)
       IN  probe' = [calls |-> 1, raised |-> res.raised, value |-> res.value]
    /\ UNCHANGED <<env, boot, gatewayVars, lfh_init, lfh_connected, now, fs, tr>>

NextProbe ==
    \/ get_account_info_call
    \/ quota_command

SpecProbe == InitProbe /\ [][NextProbe]_vars

\* ----------------------------------------------------------- properties
\* the error kind of the design a text of the source stands for; a text
\* that quotes str(e) stands for none of them
ErrorKind(kind) ==
    CASE kind = "MegaNotConfigured" -> "BackendUnavailable"
      [] kind = "FileTooLarge" -> "FileTooLarge"
      [] kind = "TooLargeForBotApi" -> "FileTooLarge"
      [] kind = "UploadFailed" -> "UploadFailed"
      [] kind \in {"Processing", "UploadSuccessful"} -> "NoError"
      [] OTHER -> "Unconverted"

\* the texts the requester received from the transfer of record r
SentKinds(r) == {r.sent[i].kind : i \in DOMAIN r.sent}

\* C1 (as claimed): every file event whose declared size exceeds
\* MAX_FILE_SIZE ends with the FileTooLarge outcome, with no staging file
\* and no fetch, whatever the state of the gateway.
C1_TooLargeInEveryGatewayState ==
    \A t \in Transfers :
        (/\ tr[t].pc /= "idle"
         /\ TruthyInt(tr[t].file_size)
         /\ Val(tr[t].file_size) > MAX_FILE_SIZE)
            => /\ tr[t].outcome = "FileTooLarge"
               /\ tr[t].created = 0
               /\ ~tr[t].fetch_started

\* C1 (amended): a file event whose declared size exceeds MAX_FILE_SIZE
\* never creates a staging file, starts a fetch or an upload; its outcome
\* is FileTooLarge when the gateway is authenticated and the
\* not-configured outcome otherwise, and the requester receives that text
\* or, when sending it raised, the processing-error text.  A declared size
\* equal to MAX_FILE_SIZE is not rejected by the size gate.
C1_SizeGate ==
    \A t \in Transfers :
        tr[t].pc /= "idle" =>
            /\ (TruthyInt(tr[t].file_size) /\ Val(tr[t].file_size) > MAX_FILE_SIZE)
                 => /\ tr[t].created = 0
                    /\ tr[t].temp_path = None
                    /\ ~tr[t].fetch_started
                    /\ ~tr[t].upload_invoked
                    /\ tr[t].outcome = IF mgr_auth THEN "FileTooLarge"
                                       ELSE "MegaNotConfigured"
                    /\ SentKinds(tr[t]) \subseteq {tr[t].outcome, "ProcessingError"}
            /\ (tr[t].file_size = Some(MAX_FILE_SIZE))
                 => tr[t].outcome /= "FileTooLarge"

\* C1 witness: an oversized document was rejected with the FileTooLarge
\* text while the gateway was authenticated.
C1_Witness ==
    \E t \in Transfers :
        /\ tr[t].pc = "done"
        /\ mgr_auth
        /\ tr[t].file_size = Some(MAX_FILE_SIZE + 1)
        /\ SentKinds(tr[t]) = {"FileTooLarge"}

\* C2 (as claimed): after download_and_upload returned, the staging file
\* it created does not exist, on every exit path.
C2_StagingFileGone ==
    \A t \in Transfers :
        (tr[t].returned /\ tr[t].temp_path /= None)
            => ~exists(fs, Val(tr[t].temp_path))

\* C2 (amended): after download_and_upload returned, on every exit path
\* os.unlink was attempted exactly once on the staging file it created, and
\* the file exists afterwards only if that os.unlink raised; when no
\* staging file was created nothing is unlinked.
C2_StagingFileGoneUnlessUnlinkRaised ==
    \A t \in Transfers :
        tr[t].returned =>
            IF tr[t].temp_path = None
            THEN tr[t].created = 0 /\ tr[t].unlinks = 0
            ELSE /\ tr[t].created = 1
                 /\ tr[t].unlinks = 1
                 /\ exists(fs, Val(tr[t].temp_path)) <=> tr[t].unlink_failed

\* C2 witness: the upload failed (None from upload_file) and the staging
\* file is gone after the return.
C2_Witness ==
    \E t \in Transfers :
        /\ tr[t].returned
        /\ tr[t].upload_failed
        /\ tr[t].temp_path /= None
        /\ ~exists(fs, Val(tr[t].temp_path))

\* C3: while MegaNzManager.is_authenticated is false, every file event
\* takes the not-configured outcome at once: no staging file exists or is
\* created, no fetch is started and the upload is never invoked.
C3_UnavailableFailsFast ==
    (boot = "polling" /\ ~mgr_auth) =>
        /\ fs = {}
        /\ \A t \in Transfers :
              tr[t].pc /= "idle" =>
                  /\ tr[t].outcome = "MegaNotConfigured"
                  /\ tr[t].pc \in {"reply_return", "except_reply", "done"}
                  /\ tr[t].created = 0
                  /\ ~tr[t].fetch_started
                  /\ ~tr[t].upload_invoked
                  /\ SentKinds(tr[t]) \subseteq {"MegaNotConfigured", "ProcessingError"}

\* C3 witness: with the gateway not authenticated, a file event of a size
\* the Bot API could fetch ended with the not-configured text.
C3_Witness ==
    \E t \in Transfers :
        /\ ~mgr_auth
        /\ tr[t].pc = "done"
        /\ tr[t].file_size = Some(1280)
        /\ SentKinds(tr[t]) = {"MegaNotConfigured"}

\* C4: a transfer whose fetch step failed (the Client API download returned
\* False, or a Bot API call raised) never invokes the backend upload.
C4_NoUploadAfterFailedFetch ==
    \A t \in Transfers :
        tr[t].fetch_failed =>
            /\ ~tr[t].upload_invoked
            /\ tr[t].measured = None
            /\ tr[t].mega_result = None

\* C4 witness: download_large_file returned False and download_and_upload
\* has returned.
C4_Witness ==
    \E t \in Transfers :
        /\ tr[t].method = "client_api"
        /\ tr[t].fetch_failed
        /\ tr[t].returned

\* C5 (as claimed): a transfer whose fetch step failed is reported with a
\* kind of its own, not with the kind of a failed upload.
C5_FetchFailureHasItsOwnKind ==
    \A t \in Transfers :
        (tr[t].returned /\ tr[t].fetch_failed)
            => ErrorKind(tr[t].outcome) /= "UploadFailed"

\* C6 (as claimed): the size in the success text equals the byte count
\* measured on the staged file after the fetch.
C6_ReportedSizeIsMeasured ==
    \A t \in Transfers :
        \A i \in DOMAIN tr[t].sent :
            tr[t].sent[i].kind = "UploadSuccessful"
                => tr[t].sent[i].size = format_file_size(tr[t].measured)

\* C7 (as claimed): every error is converted to one of the error kinds
\* before it reaches the requester, and no exception leaves the handler.
C7_ErrorsConverted ==
    \A t \in Transfers :
        /\ ~tr[t].propagated
        /\ \A i \in DOMAIN tr[t].sent :
              /\ ErrorKind(tr[t].sent[i].kind) /= "Unconverted"
              /\ tr[t].sent[i].detail /= TelegramErrorText

\* C8: transfers in flight at once hold pairwise distinct staging paths,
\* and the staging file of a transfer in flight exists (no other transfer's
\* release removed it) and, once fetched, holds the bytes measured for it.
C8_DistinctStagingPaths ==
    /\ \A t, u \in Transfers :
          (t /= u /\ InDownloadAndUpload(tr[t]) /\ InDownloadAndUpload(tr[u]))
              => tr[t].temp_path /= tr[u].temp_path
    /\ \A t \in Transfers :
          InDownloadAndUpload(tr[t]) =>
              /\ tr[t].temp_path /= None
              /\ exists(fs, Val(tr[t].temp_path))
              /\ tr[t].pc = "uploading"
                   => tr[t].measured = Some(getsize(fs, Val(tr[t].temp_path)))

\* C8 witness: two transfers of equal display name that started within the
\* same second are in flight at once, on different staging paths.
C8_Witness ==
    \E t, u \in Transfers :
        /\ t /= u
        /\ InDownloadAndUpload(tr[t])
        /\ InDownloadAndUpload(tr[u])
        /\ Val(tr[t].temp_path).suffix = Val(tr[u].temp_path).suffix
        /\ tr[t].pc = "uploading"
        /\ tr[u].pc = "uploading"

GatewayStates == {"Uninitialized", "Authenticating", "Ready", "Unavailable"}

\* C9: the gateway moves only Uninitialized -> Authenticating -> Ready or
\* Unavailable; in Unavailable is_authenticated is false and stays false,
\* and once the bot polls no update or command changes the gateway or
\* calls login again.
C9_UnavailableIsAbsorbing ==
    [][/\ <<gateway, gateway'>> \in
              {<<"Uninitialized", "Authenticating">>,
               <<"Authenticating", "Ready">>,
               <<"Authenticating", "Unavailable">>}
              \cup {<<g, g>> : g \in GatewayStates}
       /\ gateway = "Unavailable"
            => /\ ~mgr_auth
               /\ ~mgr_auth'
               /\ gateway' = "Unavailable"
               /\ login_calls' = login_calls
       /\ gateway = "Ready" => mgr_auth /\ mgr_auth'
       /\ boot = "polling" => UNCHANGED <<gateway, mgr_auth, login_calls>>
       /\ login_calls' <= 1]_vars

\* C9 witness: the gateway is Unavailable after one failed login and a file
\* event has been handled to its end.
C9_Witness ==
    /\ gateway = "Unavailable"
    /\ login_calls = 1
    /\ \E t \in Transfers : tr[t].pc = "done"

\* C10: get_account_info never raises; it returns None when the manager is
\* not authenticated or get_quota gives nothing, and the quota record
\* otherwise; the call leaves the gateway's fields as they were.
C10_ProbeNeverRaises ==
    /\ [](probe.calls > 0 =>
            /\ ~probe.raised
            /\ (~mgr_auth \/ get_quota(client_auth, account_info) = None)
                 => probe.value = None
            /\ (mgr_auth /\ get_quota(client_auth, account_info) /= None)
                 => /\ probe.value /= None
                    /\ Val(probe.value).available
                         = Val(account_info).total_quota
                           - Val(account_info).used_quota)
    /\ [][probe' /= probe => UNCHANGED gatewayVars]_vars

\* C10 witness: the probe ran while the manager was authenticated and the
\* client was not, and returned None.
C10_Witness ==
    /\ probe.calls = 1
    /\ mgr_auth
    /\ ~client_auth
    /\ probe.value = None

\* C11 (as claimed): every file event gets a non-empty display name: the
\* file name of the source when it is non-empty, otherwise
\* "{category}_{file_id}{ext}" with ext .jpg for photo, .mp4 for video,
\* .mp3 for audio, .ogg for voice and none for document.
C11_DisplayNameRule ==
    \A t \in Transfers :
        LET r == tr[t]
            ext == CASE r.category = "photo" -> <<".jpg">>
                     [] r.category = "video" -> <<".mp4">>
                     [] r.category = "audio" -> <<".mp3">>
                     [] r.category = "voice" -> <<".ogg">>
                     [] OTHER -> <<>>
            prefix == CASE r.category = "photo" -> "photo_"
                        [] r.category = "video" -> "video_"
                        [] r.category = "audio" -> "audio_"
                        [] r.category = "voice" -> "voice_"
                        [] OTHER -> "document_"
        IN  r.category /= "none" =>
                /\ r.original_filename /= <<>>
                /\ r.original_filename =
                       IF TruthyStr(r.file_name) THEN Val(r.file_name)
                       ELSE <<prefix, r.file_id>> \o ext

\* C12: within a transfer the upload is invoked only after the fetch has
\* completed and the size of the staging file was read; the staging file
\* is not released while download_and_upload is fetching or uploading, and
\* when download_and_upload has returned the release was attempted once for
\* the staging file it created (and never when it created none), whichever
\* step failed.
C12_StepsOrdered ==
    \A t \in Transfers :
        /\ tr[t].upload_invoked =>
              /\ tr[t].fetch_done
              /\ ~tr[t].fetch_failed
              /\ tr[t].measured /= None
        /\ InDownloadAndUpload(tr[t]) =>
              /\ tr[t].unlinks = 0
              /\ ~tr[t].returned
        /\ tr[t].unlinks <= 1
        /\ tr[t].created <= 1
        /\ ~tr[t].returned => tr[t].unlinks = 0
        /\ tr[t].returned => tr[t].unlinks = tr[t].created

\* C12 witness: the upload was invoked after a completed fetch and failed,
\* and download_and_upload returned after one release of its staging file.
C12_Witness ==
    \E t \in Transfers :
        /\ tr[t].returned
        /\ tr[t].fetch_done
        /\ tr[t].upload_invoked
        /\ tr[t].upload_failed
        /\ tr[t].created = 1
        /\ tr[t].unlinks = 1

\* C13: when os.unlink of the staging file raised, download_and_upload
\* still returned what the fetch and upload steps decided: the result of
\* the upload when it succeeded, None otherwise; process_file reports that
\* outcome and the staging file is left in place.
C13_UnlinkFailureKeepsOutcome ==
    \A t \in Transfers :
        (tr[t].returned /\ tr[t].unlink_failed) =>
            /\ (tr[t].mega_result /= None)
                   <=> (tr[t].upload_invoked /\ ~tr[t].upload_failed)
            /\ tr[t].mega_result /= None =>
                  /\ Val(tr[t].mega_result).filename = tr[t].original_filename
                  /\ Val(tr[t].mega_result).file_size = Val(tr[t].measured)
            /\ tr[t].outcome = IF tr[t].mega_result /= None
                               THEN "UploadSuccessful" ELSE "UploadFailed"

\* C13 witness: the upload succeeded, os.unlink raised, and the requester
\* received the success text while the staging file is still there.
C13_Witness ==
    \E t \in Transfers :
        /\ tr[t].returned
        /\ tr[t].unlink_failed
        /\ tr[t].mega_result /= None
        /\ "UploadSuccessful" \in SentKinds(tr[t])
        /\ exists(fs, Val(tr[t].temp_path))

\* C14: the method of a transfer that passed the gateway and size checks
\* depends on the declared size alone: Bot API for an absent or zero size
\* and for sizes up to TELEGRAM_API_LIMIT, above it Client API exactly when
\* the large-file handler is initialized and a rejection otherwise; a
\* rejected transfer creates no staging file and starts no fetch or upload;
\* a staging file is created only under bot_api or client_api, and uploaded
\* only after a fetch wrote to it.
C14_MethodFromDeclaredSize ==
    \A t \in Transfers :
        LET r == tr[t]
            above == TruthyInt(r.file_size)
                         /\ Val(r.file_size) > TELEGRAM_API_LIMIT
        IN  /\ r.method /= "none" =>
                  r.method = IF ~above THEN "bot_api"
                             ELSE IF lfh_init THEN "client_api"
                             ELSE "too_large"
            /\ (r.category /= "none"
                   /\ r.outcome \notin {"MegaNotConfigured", "FileTooLarge"})
                  => r.method /= "none"
            /\ r.method = "too_large" =>
                  /\ r.outcome = "TooLargeForBotApi"
                  /\ r.created = 0
                  /\ r.temp_path = None
                  /\ ~r.fetch_started
                  /\ ~r.upload_invoked
                  /\ ~r.returned
            /\ (r.created > 0 \/ r.returned) =>
                  r.method \in {"bot_api", "client_api"}
            /\ r.upload_invoked => r.fetch_started /\ r.fetch_done

\* C14 witness: with the large-file handler not initialized, an event of a
\* size above TELEGRAM_API_LIMIT and within MAX_FILE_SIZE was rejected and
\* the requester received the rejection.
C14_Witness ==
    \E t \in Transfers :
        /\ ~lfh_init
        /\ tr[t].method = "too_large"
        /\ tr[t].file_size = Some(TELEGRAM_API_LIMIT + 1)
        /\ tr[t].pc = "done"
        /\ SentKinds(tr[t]) = {"TooLargeForBotApi"}
        /\ fs = {}

====
